---- MODULE Spec2Model ----
(***************************************************************************)
(* Decodificador PRT-7 (src/main.cpp): a line-oriented decoder.  Each line *)
(* of the input is parsed into a LOAD or a MAP frame; a LOAD frame decodes *)
(* one character through a circular rotor A..Z and appends it to a doubly  *)
(* linked list, a MAP frame rotates the rotor.                             *)
(*                                                                         *)
(* A C char is modelled by its ASCII code, a C string by the sequence of   *)
(* the codes before its terminating NUL, a pointer to a node by the index  *)
(* of the node in allocation order (NULL is 0).                            *)
(***************************************************************************)
EXTENDS Integers, Sequences, FiniteSets, TLC

VARIABLES archivo, saltoFinal, f, miRotor, miCarga, eventos, pc

vars == <<archivo, saltoFinal, f, miRotor, miCarga, eventos, pc>>

------------------------------------------------------------------------------
(* Characters *)

\* The printable ASCII characters, code 32 (space) to code 126 (~), in order.
Imprimibles ==
  << " ", "!", "dquote", "#", "$", "%", "&", "'", "(", ")", "*", "+", ",", "-",
     ".", "/", "0", "1", "2", "3", "4", "5", "6", "7", "8", "9", ":", ";",
     "<", "=", ">", "?", "@", "A", "B", "C", "D", "E", "F", "G", "H", "I",
     "J", "K", "L", "M", "N", "O", "P", "Q", "R", "S", "T", "U", "V", "W",
     "X", "Y", "Z", "[", "backslash", "]", "^", "_", "backtick", "a", "b", "c", "d", "e",
     "f", "g", "h", "i", "j", "k", "l", "m", "n", "o", "p", "q", "r", "s",
     "t", "u", "v", "w", "x", "y", "z", "{", "|", "}", "~" >>

\* The code of each printable character.
Codigo ==
  [ch \in {Imprimibles[i] : i \in 1..Len(Imprimibles)} |->
     31 + CHOOSE i \in 1..Len(Imprimibles) : Imprimibles[i] = ch]

\* The code of a character literal: Ord("A") is 'A'.
Ord(ch) == Codigo[ch]

\* A string literal, given as the tuple of its characters.
Txt(s) == [i \in 1..Len(s) |-> Ord(s[i])]

\* The literal "Space" of parseLinea.
Space == Txt(<<"S", "p", "a", "c", "e">>)

NULL == 0

\* <cctype> isspace in the C locale: space, \t \n \v \f \r.
isspace(c) == c = Ord(" ") \/ (c >= 9 /\ c <= 13)

\* <cctype> tolower in the C locale.
tolower(c) == IF c >= Ord("A") /\ c <= Ord("Z") THEN c - Ord("A") + Ord("a") ELSE c

\* C's % on int: the remainder has the sign of the dividend.
CRem(a, b) == IF a >= 0 \/ a % b = 0 THEN a % b ELSE (a % b) - b

------------------------------------------------------------------------------
(* ListaDeCarga: the doubly linked list of decoded characters.  Node k is  *)
(* the k-th node allocated; dato, prev and next are the nodes' fields.     *)

ListaDeCarga == [head |-> NULL, tail |-> NULL, dato |-> <<>>, prev |-> <<>>, next |-> <<>>]

\* insertarAlFinal that links the new node before head instead of after tail.
insertarAlFinal_alInicio(carga, d) ==
  LET n == Len(carga.dato) + 1
      nuevo == [carga EXCEPT !.dato = Append(@, d),
                             !.prev = Append(@, NULL),
                             !.next = Append(@, NULL)]
  IN IF carga.tail = NULL
       THEN [nuevo EXCEPT !.head = n, !.tail = n]
       ELSE [nuevo EXCEPT !.prev[carga.head] = n, !.next[n] = carga.head, !.head = n]

\* insertarAlFinal that stores over the last node instead of linking a new one.
insertarAlFinal_sobreTail(carga, d) ==
  LET n == Len(carga.dato) + 1
      nuevo == [carga EXCEPT !.dato = Append(@, d),
                             !.prev = Append(@, NULL),
                             !.next = Append(@, NULL)]
  IN IF carga.tail = NULL
       THEN [nuevo EXCEPT !.head = n, !.tail = n]
       ELSE [carga EXCEPT !.dato[carga.tail] = d]

insertarAlFinal(carga, d) ==
  LET n == Len(carga.dato) + 1
      nuevo == [carga EXCEPT !.dato = Append(@, d),
                             !.prev = Append(@, NULL),
                             !.next = Append(@, NULL)]
  IN IF carga.tail = NULL
       THEN [nuevo EXCEPT !.head = n, !.tail = n]
       ELSE [nuevo EXCEPT !.next[carga.tail] = n, !.prev[n] = carga.tail, !.tail = n]

\* The characters met walking from cur along next until NULL.
RECURSIVE RecorrerCarga(_, _)
RecorrerCarga(carga, cur) ==
  IF cur = NULL THEN <<>>
  ELSE <<carga.dato[cur]>> \o RecorrerCarga(carga, carga.next[cur])

\* imprimirMensaje: "Mensaje: [H][O]...", the list read from head.
imprimirMensaje(carga) == RecorrerCarga(carga, carga.head)

\* The characters met walking from cur along prev until NULL.
RECURSIVE RecorrerCargaAtras(_, _)
RecorrerCargaAtras(carga, cur) ==
  IF cur = NULL THEN <<>>
  ELSE <<carga.dato[cur]>> \o RecorrerCargaAtras(carga, carga.prev[cur])

\* imprimirMensajeFinal that reads the list from tail along prev.
imprimirMensajeFinal_desdeTail(carga) ==
  << [tipo |-> "final", mensaje |-> RecorrerCargaAtras(carga, carga.tail)] >>

\* imprimirMensajeFinal: the list read from head, without brackets.
imprimirMensajeFinal(carga) ==
  << [tipo |-> "final", mensaje |-> RecorrerCarga(carga, carga.head)] >>

------------------------------------------------------------------------------
(* RotorDeMapeo: the circular doubly linked list A..Z and its head.        *)

\* The constructor closing the circle on first->next instead of first.
RotorDeMapeo_malCerrado ==
  LET size == Ord("Z") - Ord("A") + 1
  IN [head |-> 1,
      size |-> size,
      c    |-> [k \in 1..size |-> Ord("A") + k - 1],
      next |-> [k \in 1..size |-> IF k = size THEN 2 ELSE k + 1],
      prev |-> [k \in 1..size |-> IF k = 1 THEN size ELSE k - 1]]

\* The constructor visits ch = 'A'..'Z'; node k holds the k-th letter.
RotorDeMapeo ==
  LET size == Ord("Z") - Ord("A") + 1
  IN [head |-> 1,
      size |-> size,
      c    |-> [k \in 1..size |-> Ord("A") + k - 1],
      next |-> [k \in 1..size |-> IF k = size THEN 1 ELSE k + 1],
      prev |-> [k \in 1..size |-> IF k = 1 THEN size ELSE k - 1]]

\* cur = cur->next, k times.
RECURSIVE Avanzar(_, _, _)
Avanzar(rotor, cur, k) ==
  IF k <= 0 THEN cur ELSE Avanzar(rotor, rotor.next[cur], k - 1)

\* rotar that leaves head where it is and shifts the letters along the nodes.
rotar_moviendoLetras(rotor, N) ==
  IF rotor.head = NULL \/ rotor.size <= 1
    THEN [rotor |-> rotor, out |-> <<>>]
    ELSE LET resto == CRem(N, rotor.size)
             effective == IF resto < 0 THEN resto + rotor.size ELSE resto
         IN [rotor |-> [rotor EXCEPT !.c = [k \in 1..rotor.size |->
                                              rotor.c[((k - 1 + effective) % rotor.size) + 1]]],
             out   |-> << [tipo |-> "rotando", n |-> N, efectivo |-> effective] >>]

\* rotar that takes the magnitude of N: a negative N rotates forward.
rotar_abs(rotor, N) ==
  IF rotor.head = NULL \/ rotor.size <= 1
    THEN [rotor |-> rotor, out |-> <<>>]
    ELSE LET effective == IF N < 0 THEN (rotor.size - (N % rotor.size)) % rotor.size
                          ELSE N % rotor.size
         IN [rotor |-> [rotor EXCEPT !.head = Avanzar(rotor, rotor.head, effective)],
             out   |-> << [tipo |-> "rotando", n |-> N, efectivo |-> effective] >>]

\* rotar without "if (effective < 0) effective += size".
rotar_sinAjuste(rotor, N) ==
  IF rotor.head = NULL \/ rotor.size <= 1
    THEN [rotor |-> rotor, out |-> <<>>]
    ELSE LET effective == CRem(N, rotor.size)
         IN [rotor |-> [rotor EXCEPT !.head = Avanzar(rotor, rotor.head, effective)],
             out   |-> << [tipo |-> "rotando", n |-> N, efectivo |-> effective] >>]

rotar(rotor, N) ==
  IF rotor.head = NULL \/ rotor.size <= 1
    THEN [rotor |-> rotor, out |-> <<>>]
    ELSE LET resto == CRem(N, rotor.size)
             effective == IF resto < 0 THEN resto + rotor.size ELSE resto
         IN [rotor |-> [rotor EXCEPT !.head = Avanzar(rotor, rotor.head, effective)],
             out   |-> << [tipo |-> "rotando", n |-> N, efectivo |-> effective] >>]

\* getMapeo without "if (in >= 'a' && in <= 'z') in = char(in - 'a' + 'A')".
getMapeo_sinNormalizar(rotor, in) ==
  IF in = Ord(" ") THEN in
  ELSE IF in < Ord("A") \/ in > Ord("Z")
    THEN in
    ELSE rotor.c[Avanzar(rotor, rotor.head, in - Ord("A"))]

\* getMapeo without "if (in < 'A' || in > 'Z') return in".
getMapeo_sinPasoDirecto(rotor, in) ==
  IF in = Ord(" ") THEN in
  ELSE LET may == IF in >= Ord("a") /\ in <= Ord("z")
                    THEN in - Ord("a") + Ord("A") ELSE in
       IN rotor.c[Avanzar(rotor, rotor.head, may - Ord("A"))]

\* getMapeo whose loop runs once too often ("i <= index").
getMapeo_unoDeMas(rotor, in) ==
  IF in = Ord(" ") THEN in
  ELSE LET may == IF in >= Ord("a") /\ in <= Ord("z")
                    THEN in - Ord("a") + Ord("A") ELSE in
       IN IF may < Ord("A") \/ may > Ord("Z")
            THEN may
            ELSE rotor.c[Avanzar(rotor, rotor.head, may - Ord("A") + 1)]

getMapeo(rotor, in) ==
  IF in = Ord(" ") THEN in
  ELSE LET may == IF in >= Ord("a") /\ in <= Ord("z")
                    THEN in - Ord("a") + Ord("A") ELSE in
       IN IF may < Ord("A") \/ may > Ord("Z")
            THEN may
            ELSE rotor.c[Avanzar(rotor, rotor.head, may - Ord("A"))]

\* The iterations of rotar's loop "for (i = 0; i < effective; ++i)".
PasosRotar(rotor, N) ==
  IF rotor.head = NULL \/ rotor.size <= 1 THEN 0
  ELSE LET resto == CRem(N, rotor.size)
       IN IF resto < 0 THEN resto + rotor.size ELSE resto

\* The iterations of getMapeo's loop "for (i = 0; i < index; ++i)".
PasosMapeo(in) ==
  IF in = Ord(" ") THEN 0
  ELSE LET may == IF in >= Ord("a") /\ in <= Ord("z")
                    THEN in - Ord("a") + Ord("A") ELSE in
       IN IF may < Ord("A") \/ may > Ord("Z") THEN 0 ELSE may - Ord("A")

\* The letters of the k nodes met from cur along next.
RECURSIVE RecorrerRotor(_, _, _)
RecorrerRotor(rotor, cur, k) ==
  IF k <= 0 THEN <<>>
  ELSE <<rotor.c[cur]>> \o RecorrerRotor(rotor, rotor.next[cur], k - 1)

\* imprimirEstado: the size letters read from head.
imprimirEstado(rotor) ==
  IF rotor.head = NULL THEN <<>>
  ELSE << [tipo |-> "estado", tabla |-> RecorrerRotor(rotor, rotor.head, rotor.size)] >>

------------------------------------------------------------------------------
(* Frames *)

nullptr == [clase |-> "nullptr"]
TramaLoad(ch) == [clase |-> "TramaLoad", fragmento |-> ch]
TramaMap(d) == [clase |-> "TramaMap", desplazamiento |-> d]

\* TramaLoad::procesar that steps the rotor after decoding.
TramaLoad_procesar_conPaso(trama, carga, rotor) ==
  LET dec == getMapeo(rotor, trama.fragmento)
      nueva == insertarAlFinal(carga, dec)
  IN [carga |-> nueva,
      rotor |-> rotar(rotor, 1).rotor,
      out   |-> << [tipo |-> "load", crudo |-> trama.fragmento, dec |-> dec,
                    mensaje |-> imprimirMensaje(nueva)] >>]

\* TramaLoad::procesar that prints the message before inserting.
TramaLoad_procesar_mensajeAntes(trama, carga, rotor) ==
  LET dec == getMapeo(rotor, trama.fragmento)
      nueva == insertarAlFinal(carga, dec)
  IN [carga |-> nueva,
      rotor |-> rotor,
      out   |-> << [tipo |-> "load", crudo |-> trama.fragmento, dec |-> dec,
                    mensaje |-> imprimirMensaje(carga)] >>]

\* TramaLoad::procesar
TramaLoad_procesar(trama, carga, rotor) ==
  LET dec == getMapeo(rotor, trama.fragmento)
      nueva == insertarAlFinal(carga, dec)
  IN [carga |-> nueva,
      rotor |-> rotor,
      out   |-> << [tipo |-> "load", crudo |-> trama.fragmento, dec |-> dec,
                    mensaje |-> imprimirMensaje(nueva)] >>]

\* TramaMap::procesar that rotates by 0 instead of by desplazamiento.
TramaMap_procesar_sinRotar(trama, carga, rotor) ==
  LET r == rotar(rotor, 0)
  IN [carga |-> carga,
      rotor |-> r.rotor,
      out   |-> r.out \o imprimirEstado(r.rotor)]

\* TramaMap::procesar
TramaMap_procesar(trama, carga, rotor) ==
  LET r == rotar(rotor, trama.desplazamiento)
  IN [carga |-> carga,
      rotor |-> r.rotor,
      out   |-> r.out \o imprimirEstado(r.rotor)]

------------------------------------------------------------------------------
(* SerialReader::leerLinea.  The file is the sequence of its lines, each   *)
(* without its terminating \n, and whether a \n follows the last of them   *)
(* (a file that does not end in \n has a last line that is not empty).     *)
(* The position f is the line being read and the number of its characters  *)
(* already consumed.                                                       *)

\* sizeof(linea) in main.
TamLinea == 256

\* sizeof(buffer) in parseLinea.
TamBuffer == 128

\* The while loop that overwrites trailing \n and \r with NUL.
RECURSIVE QuitarFinDeLinea(_)
QuitarFinDeLinea(s) ==
  IF Len(s) > 0 /\ (s[Len(s)] = 10 \/ s[Len(s)] = 13)
    THEN QuitarFinDeLinea(SubSeq(s, 1, Len(s) - 1))
    ELSE s

\* strlen: a C string ends before its first NUL.
CStr(s) ==
  IF \E i \in 1..Len(s) : s[i] = 0
    THEN SubSeq(s, 1, (CHOOSE i \in 1..Len(s) :
                         s[i] = 0 /\ \A j \in 1..(i - 1) : s[j] # 0) - 1)
    ELSE s

\* The file open for reading: its lines and whether it ends in \n.
Fichero == [lineas |-> archivo, salto |-> saltoFinal]

\* What is left to read of the line at pos, with the \n that ends it.
Resto(arch, pos) ==
  SubSeq(arch.lineas[pos.ln], pos.col + 1, Len(arch.lineas[pos.ln]))
    \o (IF pos.ln = Len(arch.lineas) /\ ~arch.salto THEN <<>> ELSE <<10>>)

\* A reader that returns the line and stays where it was.
leerLinea_sinAvanzar(arch, pos, maxLen) ==
  IF pos.ln > Len(arch.lineas) \/ Resto(arch, pos) = <<>>
    THEN [ok |-> FALSE, linea |-> <<>>, pos |-> pos]
    ELSE [ok    |-> TRUE,
          linea |-> QuitarFinDeLinea(CStr(arch.lineas[pos.ln] \o <<10>>)),
          pos   |-> pos]

\* fgets(outBuf, maxLen, f) stores at most maxLen - 1 characters and stops
\* after a \n or at the end of the file; it fails when it can store none
\* because the file has ended, or when maxLen < 1, and with maxLen = 1 it
\* stores the empty string without reading.  The line is then what strlen
\* sees of the buffer, less the \n and \r at its end.
leerLinea(arch, pos, maxLen) ==
  IF maxLen <= 0
    THEN [ok |-> FALSE, linea |-> <<>>, pos |-> pos]
  ELSE IF maxLen = 1
    THEN [ok |-> TRUE, linea |-> <<>>, pos |-> pos]
  ELSE IF pos.ln > Len(arch.lineas) \/ Resto(arch, pos) = <<>>
    THEN [ok |-> FALSE, linea |-> <<>>, pos |-> pos]
    ELSE LET resto == Resto(arch, pos)
             entera == Len(resto) <= maxLen - 1
             leido == IF entera THEN resto ELSE SubSeq(resto, 1, maxLen - 1)
         IN [ok    |-> TRUE,
             linea |-> QuitarFinDeLinea(CStr(leido)),
             pos   |-> IF entera THEN [ln |-> pos.ln + 1, col |-> 0]
                                 ELSE [ln |-> pos.ln, col |-> pos.col + maxLen - 1]]

------------------------------------------------------------------------------
(* Parsing *)

RECURSIVE TrimIzq(_)
TrimIzq(s) ==
  IF Len(s) > 0 /\ isspace(s[1]) THEN TrimIzq(Tail(s)) ELSE s

RECURSIVE TrimDer(_)
TrimDer(s) ==
  IF Len(s) > 0 /\ isspace(s[Len(s)]) THEN TrimDer(SubSeq(s, 1, Len(s) - 1)) ELSE s

trim(s) == TrimDer(TrimIzq(s))

\* The first index at or after p where s holds a character for which
\* EsDelim is wanted (TRUE) or not wanted (FALSE); Len(s) + 1 if none.
RECURSIVE Buscar(_, _, _, _)
Buscar(s, p, delim, quiero) ==
  IF p > Len(s) THEN Len(s) + 1
  ELSE IF (s[p] = delim) = quiero THEN p
  ELSE Buscar(s, p + 1, delim, quiero)

\* A strtok that gives an empty token, not NULL, when nothing is left to
\* scan (as strsep does).
strtok_tokenVacio(s, p, delim) ==
  LET ini == Buscar(s, p, delim, FALSE)
      fin == Buscar(s, ini, delim, TRUE)
  IN [hay |-> TRUE,
      tok |-> IF ini > Len(s) THEN <<>> ELSE SubSeq(s, ini, fin - 1),
      sig |-> IF fin > Len(s) THEN Len(s) + 1 ELSE fin + 1]

\* <cstring> strtok on the text s, scanning from index p (the saved
\* pointer): skip the delimiters, then take the characters up to the next
\* delimiter.  sig is the saved pointer afterwards.
strtok(s, p, delim) ==
  LET ini == Buscar(s, p, delim, FALSE)
      fin == Buscar(s, ini, delim, TRUE)
  IN IF ini > Len(s)
       THEN [hay |-> FALSE, tok |-> <<>>, sig |-> Len(s) + 1]
       ELSE [hay |-> TRUE, tok |-> SubSeq(s, ini, fin - 1),
             sig |-> IF fin > Len(s) THEN fin ELSE fin + 1]

\* <strings.h> strcasecmp(a, b) == 0
strcasecmpIgual(a, b) ==
  /\ Len(a) = Len(b)
  /\ \A i \in 1..Len(a) : tolower(a[i]) = tolower(b[i])

EsDigito(c) == c >= Ord("0") /\ c <= Ord("9")

\* The digits at the start of s, as the numbers 0..9.
RECURSIVE DigitosAlInicio(_)
DigitosAlInicio(s) ==
  IF Len(s) > 0 /\ EsDigito(s[1])
    THEN <<s[1] - Ord("0")>> \o DigitosAlInicio(Tail(s))
    ELSE <<>>

RECURSIVE SinCerosAlInicio(_)
SinCerosAlInicio(d) ==
  IF Len(d) > 0 /\ d[1] = 0 THEN SinCerosAlInicio(Tail(d)) ELSE d

\* The number written d is at most the number written m (neither has
\* leading zeros).
NoMayor(d, m) ==
  \/ Len(d) < Len(m)
  \/ /\ Len(d) = Len(m)
     /\ \/ d = m
        \/ \E i \in 1..Len(d) : d[i] < m[i] /\ \A j \in 1..(i - 1) : d[j] = m[j]

\* INT_MAX and LONG_MAX of the build (int of 32 bits, long of 64), in digits.
DigitosIntMax == <<2, 1, 4, 7, 4, 8, 3, 6, 4, 7>>
DigitosLongMax == <<9, 2, 2, 3, 3, 7, 2, 0, 3, 6, 8, 5, 4, 7, 7, 5, 8, 0, 7>>

\* The magnitude d with the sign neg is within min..max of the type whose
\* max is written m: the min is one further from 0 than the max.
Cabe(d, neg, m) ==
  IF neg
    THEN NoMayor(d, m) \/ d = [m EXCEPT ![Len(m)] = @ + 1]
    ELSE NoMayor(d, m)

IntMax == 32767 * 65536 + 65535
IntMin == (0 - 32768) * 65536

\* The number written d modulo 2^32, in two halves of 16 bits, continuing
\* from the halves hi and lo.
RECURSIVE Mod32(_, _, _, _)
Mod32(d, p, hi, lo) ==
  IF p > Len(d) THEN [hi |-> hi, lo |-> lo]
  ELSE Mod32(d, p + 1, (10 * hi + ((10 * lo + d[p]) \div 65536)) % 65536,
             (10 * lo + d[p]) % 65536)

\* The int of 32 bits in two's complement with these halves.
DeMitades(m) ==
  IF m.hi >= 32768 THEN (m.hi - 65536) * 65536 + m.lo ELSE m.hi * 65536 + m.lo

\* -v in an int of 32 bits.
Opuesto32(v) == IF v = IntMin THEN IntMin ELSE 0 - v

\* The number written d, with the sign neg, cut to an int of 32 bits.
ACortado(d, neg) ==
  IF neg THEN Opuesto32(DeMitades(Mod32(d, 1, 0, 0)))
  ELSE DeMitades(Mod32(d, 1, 0, 0))

\* <cstdlib> atoi, the values it can return: leading white space, an
\* optional sign, then digits up to the first character that is not one; 0
\* when there is no digit.  A number within int is returned as it is.
\* Beyond int the behaviour is undefined, and a build returns one of: what
\* (int) strtol gives (glibc: the long cut to 32 bits, and LONG_MAX or
\* LONG_MIN cut to 32 bits, -1 or 0, beyond long); the number modulo 2^32
\* (a loop on int that wraps); INT_MAX or INT_MIN (a loop that saturates).
atoi(s) ==
  UNION { UNION { UNION {
    IF Cabe(d, neg, DigitosIntMax)
      THEN {ACortado(d, neg)}
      ELSE { IF Cabe(d, neg, DigitosLongMax) THEN ACortado(d, neg)
             ELSE IF neg THEN 0 ELSE 0 - 1,
             ACortado(d, neg),
             IF neg THEN IntMin ELSE IntMax }
    : d \in {SinCerosAlInicio(DigitosAlInicio(
               IF Len(t) > 0 /\ (t[1] = Ord("-") \/ t[1] = Ord("+")) THEN Tail(t) ELSE t))} }
    : neg \in {Len(t) > 0 /\ t[1] = Ord("-")} }
    : t \in {TrimIzq(s)} }

\* parseLinea: the frame (or nullptr) and what it writes to cout, for each
\* value atoi can return (one, unless the number is beyond int).  Each
\* local of the function (buffer, the two tokens, their trimmed texts) is
\* computed once, where the code assigns it, and bound to its value.
parseLinea(lineaC) ==
  UNION { UNION { UNION { UNION { UNION {
    IF Len(buffer) = 0 THEN { [trama |-> nullptr, out |-> <<>>] }
    ELSE IF ~t1.hay THEN { [trama |-> nullptr, out |-> <<>>] }
    ELSE IF Len(token) = 0 THEN { [trama |-> nullptr, out |-> <<>>] }
    ELSE IF (token[1] = Ord("L") \/ token[1] = Ord("l")) /\ Len(token) = 1 THEN
      IF ~t2.hay
        THEN { [trama |-> nullptr, out |-> << [tipo |-> "sinArgumento", trama |-> "L"] >>] }
      ELSE IF Len(arg) > 0 /\ (arg[1] = Ord("S") \/ arg[1] = Ord("s"))
              /\ strcasecmpIgual(arg, Space)
        THEN { [trama |-> TramaLoad(Ord(" ")), out |-> <<>>] }
      ELSE IF Len(arg) = 1 THEN { [trama |-> TramaLoad(arg[1]), out |-> <<>>] }
      ELSE IF Len(arg) > 1 THEN { [trama |-> TramaLoad(arg[1]), out |-> <<>>] }
      ELSE { [trama |-> nullptr, out |-> <<>>] }
    ELSE IF (token[1] = Ord("M") \/ token[1] = Ord("m")) /\ Len(token) = 1 THEN
      IF ~t2.hay
        THEN { [trama |-> nullptr, out |-> << [tipo |-> "sinArgumento", trama |-> "M"] >>] }
        ELSE { [trama |-> TramaMap(n), out |-> <<>>] : n \in atoi(arg) }
    ELSE { [trama |-> nullptr, out |-> << [tipo |-> "desconocido", token |-> token] >>] }
    : arg \in {trim(t2.tok)} }
    : t2 \in {strtok(buffer, t1.sig, Ord(","))} }
    : token \in {trim(t1.tok)} }
    : t1 \in {strtok(buffer, 1, Ord(","))} }
    : buffer \in {trim(SubSeq(lineaC, 1, IF Len(lineaC) < TamBuffer - 1
                                          THEN Len(lineaC) ELSE TamBuffer - 1))} }

------------------------------------------------------------------------------
(* Inputs: the files the decoder is run on *)

\* Longest file built from LineasSesion.
MaxLineas == 3

\* Longest line built from AlfabetoParseo.
MaxLargo == 4

\* Largest magnitude of the deltas of the rotation files.
MaxDelta == 30

RECURSIVE DigitosDe(_)
DigitosDe(n) ==
  IF n < 10 THEN <<Ord("0") + n>>
  ELSE DigitosDe(n \div 10) \o <<Ord("0") + (n % 10)>>

\* The decimal text of an integer.
Itoa(n) == IF n < 0 THEN <<Ord("-")>> \o DigitosDe(0 - n) ELSE DigitosDe(n)

LineaL(arg) == Txt(<<"L", ",">>) \o arg
LineaM(n) == Txt(<<"M", ",">>) \o Itoa(n)

Mayusculas == Ord("A")..Ord("Z")
Minusculas == Ord("a")..Ord("z")
Letras == Mayusculas \cup Minusculas

\* Symbols that are neither letters nor the space, the neighbours of the
\* letter ranges among them.
NoLetras == {Ord("@"), Ord("["), Ord("backtick"), Ord("{"), Ord("#"), Ord("1"),
             Ord("-"), Ord("!"), Ord("~")}

Desplazamientos == 0..(Ord("Z") - Ord("A"))

Deltas == (0 - MaxDelta)..MaxDelta \cup {52, -52, 1000, -1000, 2147483647, -2147483647}

\* All the sequences over S of length at most n.
RECURSIVE SeqHasta(_, _)
SeqHasta(S, n) ==
  IF n = 0 THEN {<<>>}
  ELSE LET menos == SeqHasta(S, n - 1)
       IN menos \cup {Append(s, x) : s \in {t \in menos : Len(t) = n - 1}, x \in S}

LineasSesion ==
  { LineaL(<<Ord("H")>>), LineaL(<<Ord("o")>>),
    LineaM(2), LineaM(-3),
    Txt(<<"X", ",", "1">>), Txt(<<"L", ",">>), <<>> }

AlfabetoParseo ==
  {Ord("L"), Ord("m"), Ord(","), Ord(" "), Ord("A")}

LineasNombradas ==
  { LineaL(Space),
    Txt(<<"l", ",", "s", "P", "A", "c", "E">>),
    LineaL(Space \o <<Ord("s")>>),
    LineaL(Txt(<<"S", "p", "a", "c">>)),
    LineaL(Txt(<<"A", "B">>)),
    LineaL(Space \o Txt(<<",", "x">>)),
    LineaL(Txt(<<" ", "S", "p", "a", "c", "e", " ">>)),
    Txt(<<"L", "L", ",", "A">>),
    Txt(<<" ", "L", " ", ",", " ", "A", " ">>),
    Txt(<<"L", ",", "A">>) \o <<13>>,
    Txt(<<"M", ",", "3", "x">>),
    Txt(<<"M", ",", "a", "b", "c">>),
    Txt(<<"M", ",", "+", "7">>),
    Txt(<<"M", ",", " ", ",", "5">>),
    Txt(<<"M", ",", "-", "1", "A">>),
    Txt(<<"M">>),
    Txt(<<"X", ",", "1">>),
    Txt(<<"L", ",">>),
    LineaL(<<Ord("#")>>),
    <<9, 32>>,
    Txt(<<"L", ",", "A">>) \o <<0>> \o Txt(<<"B">>),
    <<0>> \o Txt(<<"L", ",", "A">>),
    Txt(<<"M", ",", "3">>) \o <<0>> \o Txt(<<"1">>),
    Txt(<<"L", ",">>) \o <<0>> \o Txt(<<"A">>) }

\* Arguments of MAP lines that are not plain numbers.
ArgumentosMap ==
  { Txt(<<"3", "x">>), Txt(<<"a", "b", "c">>), Txt(<<"+", "7">>), Txt(<<"-", "1", "A">>),
    Txt(<<"-", "x">>), Txt(<<"+">>), Txt(<<"-">>), Txt(<<"-", "-", "5">>),
    Txt(<<"+", "-", "5">>), Txt(<<" ", "1", "2", " ">>), Txt(<<"1", " ", "2">>),
    Txt(<<"0", "x", "1", "F">>), Txt(<<"0", "0", "7">>), Txt(<<"3", ",", "4">>),
    Txt(<<"1", ".", "5">>), Txt(<<"-", " ", "4">>), Txt(<<"2", "9", "z">>),
    Txt(<<"-", "0", "3", "0">>), Txt(<<"-", "0">>), Txt(<<"0", "0", "0">>),
    Txt(<<"-", "2", "1", "4", "7", "4", "8", "3", "6", "4", "8">>),
    Txt(<<"0", "0", "2", "1", "4", "7", "4", "8", "3", "6", "4", "7">>) }

\* Numbers beyond the range of int, and two of them beyond long.
ArgumentosFueraDeInt ==
  { Txt(<<"2", "1", "4", "7", "4", "8", "3", "6", "4", "8">>),
    Txt(<<"-", "2", "1", "4", "7", "4", "8", "3", "6", "4", "9">>),
    Txt(<<"4", "2", "9", "4", "9", "6", "7", "2", "9", "6">>),
    Txt(<<"4", "2", "9", "4", "9", "6", "7", "2", "9", "7">>),
    Txt(<<"9", "9", "9", "9", "9", "9", "9", "9", "9", "9", "9">>),
    Txt(<<"9", "9", "9", "9", "9", "9", "9", "9", "9", "9", "9", "9", "9", "9", "9", "9",
          "9", "9", "9", "9">>),
    Txt(<<"-", "9", "9", "9", "9", "9", "9", "9", "9", "9", "9", "9", "9", "9", "9", "9",
          "9", "9", "9", "9", "9">>) }

EscenarioA ==
  << LineaL(<<Ord("H")>>), LineaL(<<Ord("O")>>), LineaL(<<Ord("L")>>), LineaM(2),
     LineaL(<<Ord("A")>>), LineaL(Space), LineaL(<<Ord("W")>>) >>

EscenarioB == << LineaM(-2) >>

\* The example of main's usage text.
EscenarioUso ==
  EscenarioA \o << LineaM(-2), LineaL(<<Ord("O")>>), LineaL(<<Ord("R")>>),
                   LineaL(<<Ord("L")>>), LineaL(<<Ord("D")>>) >>

ArchivosSesion == SeqHasta(LineasSesion, MaxLineas)

ArchivosRotacion ==
  { <<LineaM(o), LineaM(n), LineaM(0 - n)>> : o \in Desplazamientos, n \in Deltas }

ArchivosMapeo ==
  { <<LineaM(o), LineaL(a)>> :
      o \in Desplazamientos, a \in {<<x>> : x \in Letras \cup NoLetras} \cup {Space} }

ArchivosParseo ==
  { <<l>> : l \in SeqHasta(AlfabetoParseo, MaxLargo) \cup LineasNombradas }

\* A rotation to each of a few offsets, then a MAP line with each argument.
ArchivosMapLeniente ==
  { <<LineaM(o), Txt(<<"M", ",">>) \o a>> : o \in {0, 5, 25}, a \in ArgumentosMap }
    \cup { <<Txt(<<"M", ",">>) \o a, LineaL(<<Ord("A")>>)>> : a \in ArgumentosFueraDeInt }

\* A session with every kind of line: loads, a rotation backwards, an
\* unknown type, a missing argument and a blank line.
EscenarioMixto ==
  << LineaL(<<Ord("H")>>), LineaL(<<Ord("o")>>), Txt(<<"X", ",", "1">>), LineaM(-3),
     Txt(<<"L", ",">>), <<>>, LineaL(<<Ord("a")>>) >>

\* Lines without an argument in the middle of a session.
EscenarioSinArgumento ==
  << LineaL(<<Ord("H")>>), LineaM(5), Txt(<<"M", ",">>), Txt(<<"L">>),
     Txt(<<"m", " ", ",", " ">>), LineaL(<<Ord("o")>>) >>

\* The same letters in lower and in upper case, after a rotation.
EscenarioCajas ==
  << LineaM(3), LineaL(<<Ord("h")>>), LineaL(<<Ord("H")>>),
     LineaL(<<Ord("z")>>), LineaL(<<Ord("Z")>>) >>

Archivos ==
  ArchivosSesion \cup ArchivosRotacion \cup ArchivosMapeo \cup ArchivosParseo
    \cup ArchivosMapLeniente
    \cup {EscenarioA, EscenarioB, EscenarioUso, EscenarioMixto, EscenarioCajas,
            EscenarioSinArgumento}

------------------------------------------------------------------------------
(* main: the state after the reader is opened, and the processing loop *)

\* Files whose last line is not ended by a line feed.
ArchivosSinSalto ==
  { <<LineaL(<<Ord("A")>>)>>,
    <<LineaL(<<Ord("H")>>), LineaM(2)>>,
    <<LineaL(<<Ord("H")>>), Txt(<<"X", ",", "1">>)>>,
    <<LineaM(5), LineaL(<<Ord("b")>>)>>,
    <<LineaL(<<Ord("A")>>), <<32>>>> }

Init ==
  /\ archivo \in Archivos \cup ArchivosSinSalto
  /\ saltoFinal \in {TRUE} \cup (IF archivo \in ArchivosSinSalto THEN {FALSE} ELSE {})
  /\ f = [ln |-> 1, col |-> 0]
  /\ miRotor = RotorDeMapeo
  /\ miCarga = ListaDeCarga
  /\ eventos = <<>>
  /\ pc = "leyendo"

Recibida(linea) == << [tipo |-> "recibida", linea |-> linea] >>

\* The loop leaving with break, instead of continue, on an invalid frame.
TramaInvalida_break ==
  /\ pc = "leyendo"
  /\ \E l \in {leerLinea(Fichero, f, TamLinea)} :
       /\ l.ok
       /\ \E p \in parseLinea(l.linea) :
            /\ p.trama.clase = "nullptr"
            /\ eventos' = eventos \o Recibida(l.linea) \o p.out
                            \o << [tipo |-> "invalida"] >> \o imprimirMensajeFinal(miCarga)
       /\ f' = l.pos
  /\ pc' = "fin"
  /\ UNCHANGED <<archivo, saltoFinal, miRotor, miCarga>>

\* parseLinea returns nullptr: "Trama invalida. Se ignora." and continue.
TramaInvalida ==
  /\ pc = "leyendo"
  /\ \E l \in {leerLinea(Fichero, f, TamLinea)} :
       /\ l.ok
       /\ \E p \in parseLinea(l.linea) :
            /\ p.trama.clase = "nullptr"
            /\ eventos' = eventos \o Recibida(l.linea) \o p.out
                            \o << [tipo |-> "invalida"] >>
       /\ f' = l.pos
  /\ UNCHANGED <<archivo, saltoFinal, miRotor, miCarga, pc>>

\* trama->procesar dispatched to TramaLoad.
ProcesarTramaLoad ==
  /\ pc = "leyendo"
  /\ \E l \in {leerLinea(Fichero, f, TamLinea)} :
       /\ l.ok
       /\ \E p \in parseLinea(l.linea) :
            /\ p.trama.clase = "TramaLoad"
            /\ \E r \in {TramaLoad_procesar(p.trama, miCarga, miRotor)} :
                 /\ miCarga' = r.carga
                 /\ miRotor' = r.rotor
                 /\ eventos' = eventos \o Recibida(l.linea) \o p.out \o r.out
       /\ f' = l.pos
  /\ UNCHANGED <<archivo, saltoFinal, pc>>

\* trama->procesar dispatched to TramaMap.
ProcesarTramaMap ==
  /\ pc = "leyendo"
  /\ \E l \in {leerLinea(Fichero, f, TamLinea)} :
       /\ l.ok
       /\ \E p \in parseLinea(l.linea) :
            /\ p.trama.clase = "TramaMap"
            /\ \E r \in {TramaMap_procesar(p.trama, miCarga, miRotor)} :
                 /\ miCarga' = r.carga
                 /\ miRotor' = r.rotor
                 /\ eventos' = eventos \o Recibida(l.linea) \o p.out \o r.out
       /\ f' = l.pos
  /\ UNCHANGED <<archivo, saltoFinal, pc>>

\* leerLinea returns false: the loop ends and the final message is written.
FinDeFlujo ==
  /\ pc = "leyendo"
  /\ ~leerLinea(Fichero, f, TamLinea).ok
  /\ eventos' = eventos \o imprimirMensajeFinal(miCarga)
  /\ pc' = "fin"
  /\ UNCHANGED <<archivo, saltoFinal, f, miRotor, miCarga>>

Next == TramaInvalida \/ ProcesarTramaLoad \/ ProcesarTramaMap \/ FinDeFlujo

Spec == Init /\ [][Next]_vars

------------------------------------------------------------------------------
(* What the log of a run says, in the terms of the rotor's offset *)

NumLetras == Ord("Z") - Ord("A") + 1

\* The offset of a rotor: the canonical index of the letter at head.
Offset(rotor) == rotor.c[rotor.head] - Ord("A")

\* The canonical index of a letter of either case.
Indice(c) == IF c \in Minusculas THEN c - Ord("a") ELSE c - Ord("A")

\* The sum, modulo 26 and in 0..25, of the deltas rotated by before event k.
RECURSIVE OffsetAntes(_, _)
OffsetAntes(ev, k) ==
  IF k <= 1 THEN 0
  ELSE IF ev[k - 1].tipo = "rotando"
    THEN (OffsetAntes(ev, k - 1) + (ev[k - 1].n % NumLetras)) % NumLetras
    ELSE OffsetAntes(ev, k - 1)

\* map in offset arithmetic.
MapaIdeal(c, o) ==
  IF c \in Letras THEN Ord("A") + ((Indice(c) + o) % NumLetras) ELSE c

\* The alphabet rotated by o.
TablaIdeal(o) == [i \in 1..NumLetras |-> Ord("A") + ((i - 1 + o) % NumLetras)]

\* The step processes a MAP frame: rotar and imprimirEstado wrote the last
\* two events.
PasoMap ==
  /\ Len(eventos') >= Len(eventos) + 3
  /\ eventos'[Len(eventos')].tipo = "estado"
  /\ eventos'[Len(eventos') - 1].tipo = "rotando"

------------------------------------------------------------------------------
(* Claims *)

\* C1: rotating by n from offset o leaves the rotor at offset (o + n) mod 26,
\* a true modulo in 0..25; the effective shift reported is
\* ((n mod 26) + 26) mod 26; the resulting table is the one a rotation by
\* the effective shift gives (M,-2 from offset 0: shift 24, table of
\* rotate(24)).
C1_RotarModulo ==
  [][ PasoMap =>
        LET e == eventos'[Len(eventos') - 1]
            t == eventos'[Len(eventos')]
        IN /\ e.efectivo = ((e.n % NumLetras) + NumLetras) % NumLetras
           /\ e.efectivo \in 0..(NumLetras - 1)
           /\ Offset(miRotor') = (Offset(miRotor) + (e.n % NumLetras)) % NumLetras
           /\ t.tabla = TablaIdeal(Offset(miRotor'))
           /\ (e.n = -2 /\ Offset(miRotor) = 0 =>
                 e.efectivo = 24 /\ t.tabla = TablaIdeal(24)) ]_vars

\* C1 witness: M,-2 was processed on the fresh rotor: shift 24, table Y Z A ...
C1_Witness ==
  /\ Len(eventos) >= 3
  /\ eventos[1].tipo = "recibida" /\ eventos[1].linea = LineaM(-2)
  /\ eventos[2].tipo = "rotando" /\ eventos[2].n = -2 /\ eventos[2].efectivo = 24
  /\ eventos[3].tipo = "estado" /\ eventos[3].tabla[1] = Ord("Y")
  /\ Offset(miRotor) = 24

\* C2: a LOAD of a letter of either case with canonical index i, processed
\* at rotor offset o, is decoded as the upper-case letter of index
\* (i + o) mod 26.
C2_MapeoLetras ==
  \A k \in 1..Len(eventos) :
    (eventos[k].tipo = "load" /\ eventos[k].crudo \in Letras) =>
      /\ eventos[k].dec = Ord("A") + ((Indice(eventos[k].crudo) + OffsetAntes(eventos, k)) % NumLetras)
      /\ eventos[k].dec \in Mayusculas

\* C2 witness: lower-case y decoded at offset 3 wraps around to B.
C2_Witness ==
  \E k \in 1..Len(eventos) :
    /\ eventos[k].tipo = "load"
    /\ eventos[k].crudo = Ord("y")
    /\ OffsetAntes(eventos, k) = 3
    /\ eventos[k].dec = Ord("B")

\* The outputs map gives, in offset arithmetic, for the LOAD frames of the
\* log from event k on, the offset being off at event k.
RECURSIVE SalidasEsperadas(_, _, _)
SalidasEsperadas(ev, k, off) ==
  IF k > Len(ev) THEN <<>>
  ELSE IF ev[k].tipo = "rotando"
    THEN SalidasEsperadas(ev, k + 1, (off + (ev[k].n % NumLetras)) % NumLetras)
  ELSE IF ev[k].tipo = "load"
    THEN <<MapaIdeal(ev[k].crudo, off)>> \o SalidasEsperadas(ev, k + 1, off)
  ELSE SalidasEsperadas(ev, k + 1, off)

\* C3: the accumulator, read from head, holds the map outputs of the LOAD
\* frames processed so far, in arrival order, each computed with the offset
\* in effect when its frame was processed.
C3_AcumuladorEnOrden ==
  RecorrerCarga(miCarga, miCarga.head) = SalidasEsperadas(eventos, 1, 0)

\* C3 witness: L,H then M,2 then L,o: the accumulator holds H then Q.
C3_Witness ==
  /\ archivo = <<LineaL(<<Ord("H")>>), LineaM(2), LineaL(<<Ord("o")>>)>>
  /\ pc = "fin"
  /\ RecorrerCarga(miCarga, miCarga.head) = Txt(<<"H", "Q">>)

\* C4: scenario A, from a fresh session, leaves the accumulator holding
\* HOLC Y; the three letters before M,2 are decoded at offset 0.
C4_EscenarioA ==
  archivo = EscenarioA =>
    /\ (f.ln = 4 => RecorrerCarga(miCarga, miCarga.head) = Txt(<<"H", "O", "L">>))
    /\ (f.ln = 5 => Offset(miRotor) = 2)
    /\ (pc = "fin" =>
          /\ RecorrerCarga(miCarga, miCarga.head) = Txt(<<"H", "O", "L", "C", " ", "Y">>)
          /\ eventos[Len(eventos)].tipo = "final"
          /\ eventos[Len(eventos)].mensaje = Txt(<<"H", "O", "L", "C", " ", "Y">>))

\* C4 witness: scenario A was run to the end of its seven lines.
C4_Witness ==
  /\ archivo = EscenarioA
  /\ pc = "fin"
  /\ f.ln = 8
  /\ Len(miCarga.dato) = 6

\* The rotor and the accumulator after the frame t is dispatched in est.
Despachar(est, t) ==
  LET r == IF t.clase = "TramaLoad" THEN TramaLoad_procesar(t, est.carga, est.rotor)
           ELSE IF t.clase = "TramaMap" THEN TramaMap_procesar(t, est.carga, est.rotor)
           ELSE est
  IN [carga |-> r.carga, rotor |-> r.rotor]

\* The states the loop can be in after lineas (more than one only when a
\* line holds a number beyond int).
RECURSIVE Ejecutar(_, _)
Ejecutar(est, lineas) ==
  IF lineas = <<>> THEN {est}
  ELSE UNION { Ejecutar(sig, Tail(lineas)) :
                 sig \in { Despachar(est, p.trama) : p \in parseLinea(Head(lineas)) } }

\* The line gives no frame: it is blank or fails to parse.
SinTrama(l) == \A p \in parseLinea(l) : p.trama.clase = "nullptr"

ConTrama(l) == ~SinTrama(l)

\* The line of the file as leerLinea hands it over when one call reads it.
LineaC(l) == QuitarFinDeLinea(CStr(l))

\* The lines read so far (each line here is read by one call of leerLinea).
LineasLeidas == [i \in 1..(f.ln - 1) |-> LineaC(archivo[i])]

NumRecibidas == Cardinality({k \in 1..Len(eventos) : eventos[k].tipo = "recibida"})

\* C5: a line that gives no frame does not end the session and changes
\* neither the rotor nor the accumulator: after any number of lines the
\* rotor and the accumulator are those of the run on the same lines with
\* the frameless ones removed, every line read so far was received, and
\* the session has ended only if the lines are exhausted.
C5_LineaMalaSeIgnora ==
  /\ [carga |-> miCarga, rotor |-> miRotor]
       \in Ejecutar([carga |-> ListaDeCarga, rotor |-> RotorDeMapeo],
                  SelectSeq(LineasLeidas, ConTrama))
  /\ NumRecibidas = f.ln - 1
  /\ (pc = "fin" => f.ln = Len(archivo) + 1)

\* C5 witness: L,H / X,1 / L,o was read to the end: the accumulator holds
\* H then O, as without the X,1.
C5_Witness ==
  /\ archivo = <<LineaL(<<Ord("H")>>), Txt(<<"X", ",", "1">>), LineaL(<<Ord("o")>>)>>
  /\ pc = "fin"
  /\ SinTrama(archivo[2])
  /\ RecorrerCarga(miCarga, miCarga.head) = Txt(<<"H", "O">>)

\* The tables written by imprimirEstado, in order.
Tablas(ev) == SelectSeq(ev, LAMBDA e : e.tipo = "estado")

Rotandos(ev) == SelectSeq(ev, LAMBDA e : e.tipo = "rotando")

\* C6: a rotation by n followed by a rotation by -n restores the mapping
\* of every letter A..Z: the table after the second rotation is the table
\* before the first, and it is what getMapeo gives for A..Z.
C6_RotacionInvertible ==
  LET rs == Rotandos(eventos)
      ts == Tablas(eventos)
      antes(j) == IF j = 1 THEN [i \in 1..NumLetras |-> Ord("A") + i - 1]
                  ELSE ts[j - 1].tabla
  IN /\ Len(rs) = Len(ts)
     /\ \A j \in 1..(Len(rs) - 1) :
          (rs[j].n # IntMin /\ rs[j + 1].n = 0 - rs[j].n) => ts[j + 1].tabla = antes(j)
     /\ (Len(ts) > 0 /\ eventos[Len(eventos)].tipo = "estado") =>
          ts[Len(ts)].tabla = [i \in 1..NumLetras |-> getMapeo(miRotor, Ord("A") + i - 1)]

\* C6 witness: from offset 3, M,-27 and then M,27: the table printed last
\* is the one printed first, and the one between them differs.
C6_Witness ==
  LET rs == Rotandos(eventos)
      ts == Tablas(eventos)
  IN /\ Len(rs) = 3
     /\ rs[1].n = 3 /\ rs[2].n = -27 /\ rs[3].n = 27
     /\ ts[3].tabla = ts[1].tabla
     /\ ts[2].tabla # ts[1].tabla
     /\ ts[1].tabla[1] = Ord("D")

\* C7: at the rotor's current offset map is a bijection of A..Z onto A..Z.
\* (The image of the 26 letters has 26 elements exactly when no two letters
\* share an image.)
C7_Biyeccion ==
  \A imagen \in {{getMapeo(miRotor, x) : x \in Mayusculas}} :
    /\ Cardinality(imagen) = Cardinality(Mayusculas)
    /\ imagen = Mayusculas

\* C7 witness: the rotor is away from offset 0 and a letter was decoded
\* through it into another letter.
C7_Witness ==
  /\ Offset(miRotor) = 25
  /\ \E k \in 1..Len(eventos) :
       /\ eventos[k].tipo = "load"
       /\ eventos[k].crudo = Ord("B")
       /\ eventos[k].dec = Ord("A")

\* C8: at every offset map gives the space for the space and gives back
\* unchanged a symbol that is neither a letter nor the space; the LOAD of
\* such a symbol appends that symbol, whatever was rotated before.
C8_NoLetrasSinCambio ==
  /\ \A c \in NoLetras \cup {Ord(" ")} : getMapeo(miRotor, c) = c
  /\ \A k \in 1..Len(eventos) :
       (eventos[k].tipo = "load" /\ eventos[k].crudo \notin Letras) =>
         /\ eventos[k].dec = eventos[k].crudo
         /\ eventos[k].mensaje[Len(eventos[k].mensaje)] = eventos[k].crudo

\* C8 witness: after a rotation to offset 7, L,[ appended [ and a run
\* of the same kind appended the space.
C8_Witness ==
  /\ pc = "fin"
  /\ Offset(miRotor) = 7
  /\ \E k \in 1..Len(eventos) :
       /\ eventos[k].tipo = "load"
       /\ eventos[k].crudo \in {Ord("["), Ord(" ")}
       /\ eventos[k].dec = eventos[k].crudo
  /\ Len(miCarga.dato) = 1
  /\ miCarga.dato[1] \in {Ord("["), Ord(" ")}

------------------------------------------------------------------------------
(* The parser as the specification words it: the trimmed line is split at  *)
(* its first comma, the type token is the text before it and the argument  *)
(* all the text after it.                                                  *)

PrimeraComa(s) == Buscar(s, 1, Ord(","), TRUE)

TokenSegunSpec(l) ==
  LET t == trim(l) IN trim(SubSeq(t, 1, PrimeraComa(t) - 1))

HayArgSegunSpec(l) == PrimeraComa(trim(l)) <= Len(trim(l))

ArgSegunSpec(l) ==
  LET t == trim(l) IN trim(SubSeq(t, PrimeraComa(t) + 1, Len(t)))

EsTipo(tok, letra) == Len(tok) = 1 /\ tolower(tok[1]) = tolower(Ord(letra))

\* C9: for every line received that is not blank, the type token is the
\* trimmed text before the first comma; a token that is not exactly L or M
\* (case-insensitively), the empty one included, is answered with the
\* unknown-type diagnostic carrying that token and gives no frame, and an
\* L or M token is never answered so.
C9_TipoDesconocido ==
  \A k \in 1..Len(eventos) :
    (eventos[k].tipo = "recibida" /\ trim(eventos[k].linea) # <<>>) =>
      LET tok == TokenSegunSpec(eventos[k].linea)
      IN IF EsTipo(tok, "L") \/ EsTipo(tok, "M")
           THEN eventos[k + 1].tipo # "desconocido"
           ELSE /\ eventos[k + 1].tipo = "desconocido"
                /\ eventos[k + 1].token = tok
                /\ eventos[k + 2].tipo = "invalida"

\* C10: for every LOAD line received whose argument, the trimmed text after
\* the first comma, is not empty, the symbol loaded is the space when the
\* argument is the word Space in any case, and the first character of the
\* argument otherwise.
C10_SimboloDeCarga ==
  \A k \in 1..Len(eventos) :
    (/\ eventos[k].tipo = "recibida"
     /\ EsTipo(TokenSegunSpec(eventos[k].linea), "L")
     /\ HayArgSegunSpec(eventos[k].linea)
     /\ ArgSegunSpec(eventos[k].linea) # <<>>) =>
      /\ eventos[k + 1].tipo = "load"
      /\ eventos[k + 1].crudo =
           IF strcasecmpIgual(ArgSegunSpec(eventos[k].linea), Space)
             THEN Ord(" ") ELSE ArgSegunSpec(eventos[k].linea)[1]

------------------------------------------------------------------------------
(* The type token and the argument as parseLinea takes them *)

BufferDe(l) ==
  trim(SubSeq(l, 1, IF Len(l) < TamBuffer - 1 THEN Len(l) ELSE TamBuffer - 1))

\* The trimmed first token of the line (empty if there is none).
TokenDelParser(l) == trim(strtok(BufferDe(l), 1, Ord(",")).tok)

\* The second token of the line: hay says whether there is one, tok is its
\* trimmed text.
ArgDelParser(l) ==
  LET t2 == strtok(BufferDe(l), strtok(BufferDe(l), 1, Ord(",")).sig, Ord(","))
  IN [hay |-> t2.hay, tok |-> trim(t2.tok)]

\* C11: a LOAD or MAP line whose argument, the trimmed text after the
\* first comma, is absent (the line has no comma, or nothing is left after
\* it) is answered with the missing-argument diagnostic of its type and as
\* invalid, and gives no frame: no LOAD and no rotation is written for it,
\* and right after it the accumulator and the rotor offset are those of the
\* events before the line.
C11_SinArgumentoSinTrama ==
  \A k \in 1..Len(eventos) :
    (/\ eventos[k].tipo = "recibida"
     /\ (EsTipo(TokenSegunSpec(eventos[k].linea), "L")
           \/ EsTipo(TokenSegunSpec(eventos[k].linea), "M"))
     /\ (~HayArgSegunSpec(eventos[k].linea)
           \/ ArgSegunSpec(eventos[k].linea) = <<>>)) =>
      /\ eventos[k + 1].tipo = "sinArgumento"
      /\ eventos[k + 1].trama =
           (IF EsTipo(TokenSegunSpec(eventos[k].linea), "L") THEN "L" ELSE "M")
      /\ eventos[k + 2].tipo = "invalida"
      /\ (k + 2 < Len(eventos) => eventos[k + 3].tipo \in {"recibida", "final"})
      /\ (k + 2 = Len(eventos) =>
            /\ RecorrerCarga(miCarga, miCarga.head)
                 = SalidasEsperadas(SubSeq(eventos, 1, k - 1), 1, 0)
            /\ Offset(miRotor) = OffsetAntes(eventos, k))

\* C11 witness: after L,H and M,5 the lines "M," and "L" and "m , " were
\* each answered with the diagnostic of their type, and L,o was then decoded
\* at offset 5: the accumulator holds H and T.
C11_Witness ==
  /\ archivo = EscenarioSinArgumento
  /\ pc = "fin"
  /\ Len(eventos) = 17
  /\ eventos[6].linea = Txt(<<"M", ",">>)
  /\ eventos[7].tipo = "sinArgumento" /\ eventos[7].trama = "M"
  /\ eventos[8].tipo = "invalida"
  /\ eventos[9].linea = Txt(<<"L">>)
  /\ eventos[10].tipo = "sinArgumento" /\ eventos[10].trama = "L"
  /\ eventos[12].linea = Txt(<<"m", " ", ",", " ">>)
  /\ eventos[13].tipo = "sinArgumento" /\ eventos[13].trama = "M"
  /\ Offset(miRotor) = 5
  /\ RecorrerCarga(miCarga, miCarga.head) = Txt(<<"H", "T">>)

\* The number of leading digits of b.
DigitosIniciales(b) ==
  CHOOSE k \in 0..Len(b) :
    /\ \A i \in 1..k : EsDigito(b[i])
    /\ (k = Len(b) \/ ~EsDigito(b[k + 1]))

\* The number of zeros at the start of b.
CerosIniciales(b) ==
  CHOOSE z \in 0..Len(b) :
    /\ \A i \in 1..z : b[i] = Ord("0")
    /\ (z = Len(b) \/ b[z + 1] # Ord("0"))

\* The longest optionally signed decimal prefix of a written as a number
\* is written: no + sign, no zeros in front, 0 for no digits and for -0.
PrefijoDecimal(a) ==
  LET signo == a # <<>> /\ (a[1] = Ord("-") \/ a[1] = Ord("+"))
      cuerpo == IF signo THEN Tail(a) ELSE a
      digitos == SubSeq(cuerpo, 1, DigitosIniciales(cuerpo))
      cifras == SubSeq(digitos, CerosIniciales(digitos) + 1, Len(digitos))
  IN IF cifras = <<>> THEN <<Ord("0")>>
     ELSE IF a[1] = Ord("-") THEN <<Ord("-")>> \o cifras
     ELSE cifras

\* The digits of a number n <= 0, read as those of -n.
RECURSIVE CifrasDe(_)
CifrasDe(n) ==
  IF n = 0 THEN <<>>
  ELSE CifrasDe((n + ((10 - (n % 10)) % 10)) \div 10)
         \o <<Ord("0") + ((10 - (n % 10)) % 10)>>

\* The int n as cout writes it.
Decimal(n) ==
  IF n = 0 THEN <<Ord("0")>>
  ELSE IF n < 0 THEN <<Ord("-")>> \o CifrasDe(n)
  ELSE CifrasDe(0 - n)

\* C12: a MAP line whose argument is present always gives a MAP frame, and
\* its delta is the value of the longest optionally signed decimal prefix
\* of the trimmed argument, 0 when there is none; a delta of 0 leaves the
\* table as it was.
C12_DeltaLeniente ==
  \A k \in 1..Len(eventos) :
    (/\ eventos[k].tipo = "recibida"
     /\ EsTipo(TokenDelParser(eventos[k].linea), "M")
     /\ ArgDelParser(eventos[k].linea).hay
     /\ ArgDelParser(eventos[k].linea).tok # <<>>) =>
      /\ eventos[k + 1].tipo = "rotando"
      /\ Decimal(eventos[k + 1].n) = PrefijoDecimal(ArgDelParser(eventos[k].linea).tok)
      /\ eventos[k + 2].tipo = "estado"
      /\ (eventos[k + 1].n = 0 =>
            eventos[k + 2].tabla = TablaIdeal(OffsetAntes(eventos, k)))


\* A line with nothing but white space in it.
EnBlanco(l) == \A i \in 1..Len(l) : isspace(l[i])

\* C13: a blank or white-space-only line is skipped in silence: the step
\* that reads it reports no invalid frame, leaves the accumulator and the
\* rotor as they were, and the session goes on reading.
C13_LineaEnBlancoEnSilencio ==
  [][(/\ pc = "leyendo"
      /\ leerLinea(Fichero, f, TamLinea).ok
      /\ EnBlanco(leerLinea(Fichero, f, TamLinea).linea)) =>
       /\ miCarga' = miCarga
       /\ miRotor' = miRotor
       /\ pc' = "leyendo"
       /\ f' = leerLinea(Fichero, f, TamLinea).pos
       /\ \A k \in (Len(eventos) + 1)..Len(eventos') :
            eventos'[k].tipo # "invalida"]_vars

\* The accumulator's characters in order, as a walk from head reads them.
Contenido(carga) == RecorrerCarga(carga, carga.head)

\* s is an initial part of t.
EsPrefijo(s, t) == Len(s) <= Len(t) /\ SubSeq(t, 1, Len(s)) = s

\* C14: in every step, the end of the stream included, the accumulator
\* only grows at its end: what it held is an initial part of what it
\* holds, and no node already stored changes its character.
C14_SoloAgrega ==
  [][/\ EsPrefijo(Contenido(miCarga), Contenido(miCarga'))
     /\ \A n \in 1..Len(miCarga.dato) :
          /\ n <= Len(miCarga'.dato)
          /\ miCarga'.dato[n] = miCarga.dato[n]
     /\ (pc' = "fin" => Contenido(miCarga') = Contenido(miCarga))]_vars

\* C14 witness: three characters stored one after another and the final
\* message produced from them.
C14_Witness ==
  /\ pc = "fin"
  /\ Len(Contenido(miCarga)) = 3
  /\ eventos[Len(eventos)].tipo = "final"
  /\ eventos[Len(eventos)].mensaje = Contenido(miCarga)
  /\ \E i, j \in 1..3 : miCarga.dato[i] # miCarga.dato[j]

------------------------------------------------------------------------------
(* Sessions with lines longer than the buffers of main and parseLinea.     *)

Relleno(c, n) == [i \in 1..n |-> c]

\* The text a, blanks up to column n, then the text b.
LineaLarga(a, n, b) == a \o Relleno(Ord(" "), n - Len(a)) \o b

TextosDeTrama ==
  { LineaL(<<Ord("A")>>), LineaL(<<Ord("b")>>), LineaM(3), Txt(<<"X", ",", "1">>), <<>> }

\* Columns around the sizes of parseLinea's buffer and of main's linea.
ColumnasLargas ==
  {TamBuffer - 1, TamBuffer, TamLinea - 2, TamLinea - 1, TamLinea, 2 * (TamLinea - 1)}

LineasLargas ==
  { LineaLarga(a, n, b) : a \in TextosDeTrama, n \in ColumnasLargas, b \in TextosDeTrama }

ArchivosLargos ==
  { <<l>> : l \in LineasLargas }
    \cup { <<LineaM(1), l, LineaL(<<Ord("Z")>>)>> : l \in LineasLargas }

InitLargo ==
  /\ archivo \in ArchivosLargos
  /\ saltoFinal \in {TRUE} \cup (IF archivo[Len(archivo)] # <<>> THEN {FALSE} ELSE {})
  /\ f = [ln |-> 1, col |-> 0]
  /\ miRotor = RotorDeMapeo
  /\ miCarga = ListaDeCarga
  /\ eventos = <<>>
  /\ pc = "leyendo"

SpecLargo == InitLargo /\ [][Next]_vars

NumEventos(tipo) == Cardinality({k \in 1..Len(eventos) : eventos[k].tipo = tipo})

\* C15: every line, whatever its length, gives at most one frame, applied
\* once: whenever k whole lines have been consumed, the LOAD frames applied
\* plus the MAP frames applied plus the lines skipped are k, and the
\* accumulator holds as many characters as LOAD frames were applied.
C15_UnaTramaPorLinea ==
  f.col = 0 =>
    /\ NumEventos("load") + NumEventos("rotando") + NumEventos("invalida") = f.ln - 1
    /\ Len(Contenido(miCarga)) = NumEventos("load")

\* The step wrote an event of this kind.
Escribe(tipo) ==
  \E k \in (Len(eventos) + 1)..Len(eventos') : eventos'[k].tipo = tipo

\* C16: the offset starts at 0; a step that applies a MAP frame leaves the
\* accumulator as it was, a step that applies a LOAD frame leaves the rotor
\* as it was, and the offset changes in no step but one that rotates.
C16_CadaTramaLoSuyo ==
  /\ Offset(miRotor) = 0
  /\ [][/\ Escribe("rotando") => miCarga' = miCarga
        /\ Escribe("load") => (miRotor' = miRotor /\ Offset(miRotor') = Offset(miRotor))
        /\ Offset(miRotor') # Offset(miRotor) => Escribe("rotando")]_vars

\* C16 witness: a LOAD frame applied after a rotation away from offset 0,
\* with characters already stored when the rotor turned.
C16_Witness ==
  /\ Len(eventos) >= 4
  /\ Offset(miRotor) # 0
  /\ eventos[Len(eventos)].tipo = "load"
  /\ Len(eventos[Len(eventos)].mensaje) >= 2
  /\ \E k \in 1..Len(eventos) :
       /\ eventos[k].tipo = "rotando" /\ eventos[k].efectivo # 0
       /\ \E j \in 1..(k - 1) : eventos[j].tipo = "load"

\* n1 + ... + nk for the rotations in the first k events, each delta taken
\* by its residue in 0..25 so that the sum stays small: the sum of the
\* residues is congruent to the sum of the deltas.
RECURSIVE SumaDeltas(_, _)
SumaDeltas(ev, k) ==
  IF k = 0 THEN 0
  ELSE SumaDeltas(ev, k - 1)
         + (IF ev[k].tipo = "rotando" THEN ev[k].n % NumLetras ELSE 0)

\* C17: after any rotations n1..nk the rotor is the offset model: its 26
\* nodes hold A..Z linked in a circle by next and prev as the constructor
\* left them, head is the node of the letter at index (n1 + ... + nk) mod 26
\* taken in 0..25, and the table read from head is the alphabet rotated by
\* that offset.
C17_RotorEnlazadoEsOffset ==
  \A o \in {SumaDeltas(eventos, Len(eventos)) % NumLetras} :
    /\ miRotor.size = NumLetras
    /\ \A k \in 1..NumLetras :
         /\ miRotor.c[k] = Ord("A") + k - 1
         /\ miRotor.next[k] = (k % NumLetras) + 1
         /\ miRotor.prev[miRotor.next[k]] = k
    /\ o \in 0..(NumLetras - 1)
    /\ miRotor.head = o + 1
    /\ miRotor.c[miRotor.head] = Ord("A") + o
    /\ RecorrerRotor(miRotor, miRotor.head, miRotor.size) = TablaIdeal(o)

\* C17 witness: three rotations, one of them backwards, that take head
\* past Z and leave it away from A.
C17_Witness ==
  /\ NumEventos("rotando") >= 3
  /\ \E k \in 1..Len(eventos) : eventos[k].tipo = "rotando" /\ eventos[k].n < 0
  /\ SumaDeltas(eventos, Len(eventos)) \notin 0..(NumLetras - 1)
  /\ miRotor.head # 1

\* C18: when no line is left the session goes from reading to finished in
\* one step; the final message is the accumulator's contents at that
\* moment; and the finished state is terminal: no step is possible, so no
\* frame is accepted and neither the rotor nor the accumulator changes.
C18_FinDeSesion ==
  /\ pc = "leyendo"
  /\ [](pc = "fin" =>
          /\ ~ENABLED Next
          /\ eventos[Len(eventos)].tipo = "final"
          /\ eventos[Len(eventos)].mensaje = Contenido(miCarga))
  /\ [][/\ (pc = "leyendo" /\ ~leerLinea(Fichero, f, TamLinea).ok) =>
             /\ pc' = "fin"
             /\ eventos' = eventos \o << [tipo |-> "final", mensaje |-> Contenido(miCarga)] >>
             /\ miCarga' = miCarga /\ miRotor' = miRotor
        /\ (pc = "leyendo" /\ leerLinea(Fichero, f, TamLinea).ok) => pc' = "leyendo"
        /\ pc = "fin" => UNCHANGED vars]_vars

\* C18 witness: a finished session whose final message holds two different
\* characters, decoded on either side of a rotation.
C18_Witness ==
  /\ pc = "fin"
  /\ f.ln = Len(archivo) + 1
  /\ NumEventos("rotando") >= 1
  /\ NumEventos("final") = 1
  /\ Len(eventos[Len(eventos)].mensaje) >= 2
  /\ eventos[Len(eventos)].mensaje[1] # eventos[Len(eventos)].mensaje[2]

\* The events that close a line: one per line that main dispatched or refused.
Desenlaces == {"invalida", "load", "rotando"}

\* The index of the first event after k that opens a line or ends the
\* session; Len(ev) + 1 if there is none.
SiguienteLinea(ev, k) ==
  CHOOSE j \in (k + 1)..(Len(ev) + 1) :
    /\ j <= Len(ev) => ev[j].tipo \in {"recibida", "final"}
    /\ \A i \in (k + 1)..(j - 1) : ev[i].tipo \notin {"recibida", "final"}

\* The message of the last LOAD event before event k; empty if none.
RECURSIVE MensajeAntes(_, _)
MensajeAntes(ev, k) ==
  IF k <= 1 THEN <<>>
  ELSE IF ev[k - 1].tipo = "load" THEN ev[k - 1].mensaje
  ELSE MensajeAntes(ev, k - 1)

\* C19: the events come in a fixed order.  The log opens with the reception
\* of a line; after the reception of a non-blank line and before the next
\* reception there is exactly one of: frame invalid, LOAD processed,
\* rotation applied.  A LOAD event carries the accumulator with the
\* character just appended at its end; a rotation event carries the raw
\* delta of the line and its shift normalized to 0..25.  The end of the
\* session is reported exactly once, after the events of every line.
C19_OrdenDeEventos ==
  /\ eventos # <<>> => eventos[1].tipo \in {"recibida", "final"}
  /\ \A k \in 1..Len(eventos) :
       /\ (eventos[k].tipo = "recibida" /\ ~EnBlanco(eventos[k].linea)) =>
            Cardinality({i \in (k + 1)..(SiguienteLinea(eventos, k) - 1) :
                           eventos[i].tipo \in Desenlaces}) = 1
       /\ eventos[k].tipo = "load" =>
            /\ eventos[k].mensaje = MensajeAntes(eventos, k) \o <<eventos[k].dec>>
            /\ (MensajeAntes(eventos, Len(eventos) + 1) = eventos[k].mensaje =>
                  eventos[k].mensaje = Contenido(miCarga))
       /\ eventos[k].tipo = "rotando" =>
            /\ \E r \in 1..(k - 1) :
                 /\ eventos[r].tipo = "recibida"
                 /\ SiguienteLinea(eventos, r) > k
                 /\ \E p \in parseLinea(eventos[r].linea) :
                      /\ p.trama.clase = "TramaMap"
                      /\ p.trama.desplazamiento = eventos[k].n
            /\ eventos[k].efectivo = eventos[k].n % NumLetras
            /\ eventos[k].efectivo \in 0..(NumLetras - 1)
       /\ eventos[k].tipo = "final" => (k = Len(eventos) /\ pc = "fin")
  /\ NumEventos("final") = (IF pc = "fin" THEN 1 ELSE 0)
  /\ pc = "fin" => NumEventos("recibida") = Len(archivo)

\* C19 witness: a finished session in which a line was refused with a
\* parser diagnostic, a LOAD was processed after another and a rotation by
\* a negative delta was applied.
C19_Witness ==
  /\ pc = "fin"
  /\ NumEventos("load") >= 2
  /\ NumEventos("invalida") >= 1
  /\ NumEventos("sinArgumento") + NumEventos("desconocido") >= 1
  /\ \E k \in 1..Len(eventos) :
       eventos[k].tipo = "rotando" /\ eventos[k].n < 0 /\ eventos[k].efectivo > 0

------------------------------------------------------------------------------
(* Termination.  main is one thread running its loop: while a step is     *)
(* possible one is taken.                                                   *)

\* Lines of every kind, with the longest rotation and the longest lookup.
LineasTerminacion ==
  { LineaL(<<Ord("z")>>), LineaM(-27), Txt(<<"X", ",", "1">>), <<>> }

ArchivosTerminacion ==
  SeqHasta(LineasTerminacion, MaxLineas) \cup {EscenarioA, EscenarioMixto}

InitTerminacion ==
  /\ archivo \in ArchivosTerminacion
  /\ saltoFinal \in {TRUE} \cup (IF archivo \in {EscenarioA, EscenarioMixto} THEN {FALSE} ELSE {})
  /\ f = [ln |-> 1, col |-> 0]
  /\ miRotor = RotorDeMapeo
  /\ miCarga = ListaDeCarga
  /\ eventos = <<>>
  /\ pc = "leyendo"

FairSpec == InitTerminacion /\ [][Next]_vars /\ WF_vars(Next)

\* The lines received so far, in the order of the log.
Recibidas == [i \in 1..NumRecibidas |->
                SelectSeq(eventos, LAMBDA e : e.tipo = "recibida")[i].linea]

\* At most this many steps along next in one rotation or lookup.
MaxPasos == NumLetras - 1

\* C20: the session terminates on every finite file.  The lines are
\* consumed once each and in order: the lines received are the lines of the
\* file up to the reader's position.  Every rotation and every lookup walks
\* at most 25 nodes, and those steps are the ones that give the reported
\* shift and the decoded letter.  The session eventually finishes.
C20_Termina ==
  /\ [](/\ f.col = 0 /\ f.ln \in 1..(Len(archivo) + 1)
        /\ Recibidas = [i \in 1..(f.ln - 1) |-> LineaC(archivo[i])]
        /\ \A k \in 1..Len(eventos) :
             /\ eventos[k].tipo = "rotando" =>
                  /\ PasosRotar(miRotor, eventos[k].n) \in 0..MaxPasos
                  /\ PasosRotar(miRotor, eventos[k].n) = eventos[k].efectivo
             /\ eventos[k].tipo = "load" =>
                  /\ PasosMapeo(eventos[k].crudo) \in 0..MaxPasos
                  /\ (eventos[k].crudo \in Letras =>
                        eventos[k].dec =
                          TablaIdeal(OffsetAntes(eventos, k))[PasosMapeo(eventos[k].crudo) + 1]))
  /\ <>(pc = "fin")
  /\ [][f'.ln \in {f.ln, f.ln + 1} /\ (f'.ln = f.ln => pc' = "fin")]_vars

\* C20 witness: a finished session with a rotation of 25 steps and a
\* lookup of 25 steps.
C20_Witness ==
  /\ pc = "fin"
  /\ f.ln = Len(archivo) + 1
  /\ \E k \in 1..Len(eventos) : eventos[k].tipo = "rotando" /\ eventos[k].efectivo = MaxPasos
  /\ \E k \in 1..Len(eventos) :
       eventos[k].tipo = "load" /\ PasosMapeo(eventos[k].crudo) = MaxPasos

\* The rotor as it stands at offset o.
RotorEn(o) == [RotorDeMapeo EXCEPT !.head = o + 1]

\* C21: the accumulator never holds a lower-case letter.  A LOAD of a
\* letter of either case appends an upper-case letter A..Z, the one
\* getMapeo gives at that offset for the letter in upper case and for the
\* letter in lower case alike (L,h and L,H append the same character).
C21_SinMinusculas ==
  /\ \A i \in 1..Len(Contenido(miCarga)) : Contenido(miCarga)[i] \notin Minusculas
  /\ \A k \in 1..Len(eventos) :
       (eventos[k].tipo = "load" /\ eventos[k].crudo \in Letras) =>
         \A r \in {RotorEn(OffsetAntes(eventos, k))} :
           /\ eventos[k].dec \in Mayusculas
           /\ eventos[k].dec = getMapeo(r, Ord("A") + Indice(eventos[k].crudo))
           /\ eventos[k].dec = getMapeo(r, Ord("a") + Indice(eventos[k].crudo))
           /\ eventos[k].mensaje[Len(eventos[k].mensaje)] = eventos[k].dec

\* C21 witness: at offset 3, L,h and L,H both appended K, and L,z and L,Z
\* both appended C.
C21_Witness ==
  /\ archivo = EscenarioCajas
  /\ Offset(miRotor) = 3
  /\ Contenido(miCarga) = Txt(<<"K", "K", "C", "C">>)
  /\ \E k \in 1..Len(eventos) :
       eventos[k].tipo = "load" /\ eventos[k].crudo = Ord("h") /\ eventos[k].dec = Ord("K")
  /\ \E k \in 1..Len(eventos) :
       eventos[k].tipo = "load" /\ eventos[k].crudo = Ord("H") /\ eventos[k].dec = Ord("K")

====
